---- MODULE Spec2Model ----
(***************************************************************************)
(* LoopnetClient (scraper/client.py) with its TTLCache (cache.py) and the  *)
(* challenge detector and escalation fetcher of scraper/browser.py.        *)
(*                                                                         *)
(* asyncio tasks are cooperative: a task runs without interruption from    *)
(* one suspension point (an await that really suspends) to the next.  Each *)
(* action below is one such uninterrupted run of one fetch call; the code  *)
(* it executes is written as operators over a record                       *)
(*     S = [c |-> the client's fields, k |-> the call's locals,            *)
(*          o |-> observations]                                            *)
(* so that an action is "resume the call at its suspension point and run   *)
(* it to the next one".  One clock, now, in seconds, stands for both       *)
(* time.monotonic() and time.time().                                       *)
(***************************************************************************)
EXTENDS Integers, Sequences, FiniteSets, TLC

\* ---------------------------------------------------------------- bounds
MaxTime == 4
MaxCalls == 2
MaxRetries == 3

\* ------------------------------------------------------- program constants
CHALLENGE_MAX_LENGTH == 10000
WARMUP_SETTLE_SECONDS == 1
POLL_INTERVAL_SECONDS == 1
MIN_CONTENT_LENGTH == 1000
CHALLENGE_MARKERS == {"sec-if-cpt-container", "behavioral-content", "/akam/13/pixel_"}

\* ------------------------------------------------------------ input sets
Procs == {1, 2}
URLs == {"u1", "u2"}

\* A page is its text seen through what the code inspects: its length and
\* the marker fragments that occur in it; body tells two pages apart.
Html(body, len, frags) == [body |-> body, len |-> len, frags |-> frags]
None == Html("None", 0, {})
PageSmall == Html("small", 39, {})
PageChallenge == Html("challenge", 74, {"sec-if-cpt-container"})
PageEdge == Html("edge", 10000, {"behavioral-content"})
PageLargeMarked == Html("largeMarked", 15057, {"sec-if-cpt-container"})
PageBrowser == Html("browser", 15000, {})
Empty == Html("", 0, {})
PageFloor == Html("floor", MIN_CONTENT_LENGTH, {})
PrimaryPages == {PageSmall, PageChallenge, PageEdge, PageLargeMarked}
\* what BrowserFetcher.fetch can return: any content that is no challenge
BrowserPages == {Empty, PageFloor, PageBrowser}

\* A response of the primary transport: a status with its text, or a
\* transport fault (RequestsError).
Response(fault, status, text) == [fault |-> fault, status |-> status, text |-> text]
NoResponse == Response(FALSE, 0, None)
Statuses == {204, 403, 404, 429, 500}
Responses ==
    {Response(TRUE, 0, None)}
    \cup {Response(FALSE, s, None) : s \in Statuses}
    \cup {Response(FALSE, 200, h) : h \in PrimaryPages}

\* An exception: its class, its message (the fixed part, the status code
\* and the URL it carries).
Error(type, msg, status, url) == [type |-> type, msg |-> msg, status |-> status, url |-> url]
NoError == Error("None", "", 0, "")

\* What BrowserFetcher.fetch raises: its own two errors, and whatever a call
\* into nodriver raises (start, get and get_content; page.close).
BrowserFetchError(url) ==
    Error("BrowserFetchError", "Challenge page persisted after browser fetch", 0, url)
NotInstalled == Error("BrowserFetchError", "nodriver is not installed", 0, "")
BrowserError == Error("Exception", "browser error", 0, "")
CloseError == Error("Exception", "close error", 0, "")

\* Outcome of BrowserFetcher.fetch(url) once it has suspended: content, or
\* an exception.
Outcome(ok, html, error) == [ok |-> ok, html |-> html, error |-> error]
NoOutcome == Outcome(FALSE, None, NoError)
BrowserOutcomes(url) ==
    {Outcome(TRUE, h, NoError) : h \in BrowserPages}
    \cup {Outcome(FALSE, None, e) : e \in {BrowserFetchError(url), BrowserError, CloseError}}

\* The settings the client reads (config.py), in the model's time unit of
\* one second; delay 1 makes the limiter both sleep and pass.
LoopnetConfig(conc, retries, entries, browser) ==
    [request_delay_seconds |-> 1,
     max_concurrent_requests |-> conc,
     max_retries |-> retries,
     cache_ttl_seconds |-> 3,
     cache_max_entries |-> entries,
     browser_enabled |-> browser,
     browser_challenge_wait_seconds |-> 2]

\* The default single slot with every retry budget, and with escalation
\* enabled for the budgets up to two; a cache of one entry next to the cache
\* of two; with two slots the calls run their retry loops side by side.
Configs ==
    {LoopnetConfig(1, r, 2, FALSE) : r \in 0..MaxRetries}
    \cup {LoopnetConfig(1, r, 2, TRUE) : r \in 0..2}
    \cup {LoopnetConfig(1, 1, 1, b) : b \in BOOLEAN}
    \cup {LoopnetConfig(2, r, 2, b) : r \in {0, 1}, b \in BOOLEAN}

\* Two retrying calls side by side, next to the serialized client.
ConcurrentConfigs == {LoopnetConfig(n, 2, 2, b) : n \in {1, 2}, b \in BOOLEAN}

VARIABLES config, now, client, calls, obs, unit, bw

vars == <<config, now, client, calls, obs, unit, bw>>

\* ------------------------------------------------------------- TTLCache
\* _store is a dict: a sequence of entries in insertion order, keys unique.
HasKey(store, key) == \E i \in 1..Len(store) : store[i].key = key
IndexOf(store, key) == CHOOSE i \in 1..Len(store) : store[i].key = key
RemoveAt(store, i) ==
    [j \in 1..(Len(store) - 1) |-> IF j < i THEN store[j] ELSE store[j + 1]]

\* variant: an entry whose age equals the ttl is still served
TTLCache_get_inclusive(store, key) ==
    IF HasKey(store, key)
    THEN LET e == store[IndexOf(store, key)]
         IN IF now - e.timestamp <= config.cache_ttl_seconds
            THEN [value |-> e.value, store |-> store]
            ELSE [value |-> None, store |-> RemoveAt(store, IndexOf(store, key))]
    ELSE [value |-> None, store |-> store]

\* variant: the expiry comparison inverted
TTLCache_get_inverted(store, key) ==
    IF HasKey(store, key)
    THEN LET e == store[IndexOf(store, key)]
         IN IF now - e.timestamp >= config.cache_ttl_seconds
            THEN [value |-> e.value, store |-> store]
            ELSE [value |-> None, store |-> RemoveAt(store, IndexOf(store, key))]
    ELSE [value |-> None, store |-> store]

TTLCache_get(store, key) ==
    IF HasKey(store, key)
    THEN LET e == store[IndexOf(store, key)]
         IN IF now - e.timestamp < config.cache_ttl_seconds
            THEN [value |-> e.value, store |-> store]
            ELSE [value |-> None, store |-> RemoveAt(store, IndexOf(store, key))]
    ELSE [value |-> None, store |-> store]

\* min() over the dict returns the first key, in insertion order, among
\* those of least timestamp.
TTLCache_evict_oldest(store) ==
    IF store = <<>> THEN store
    ELSE LET oldest == CHOOSE i \in 1..Len(store) :
                         /\ \A j \in 1..Len(store) : store[i].timestamp <= store[j].timestamp
                         /\ \A j \in 1..(i - 1) : store[j].timestamp > store[i].timestamp
         IN RemoveAt(store, oldest)

\* variant: a full store evicts on every set, whether or not the key is new
TTLCache_set_evicts_always(store, key, value) ==
    LET s1 == IF Len(store) >= config.cache_max_entries
              THEN TTLCache_evict_oldest(store)
              ELSE store
        entry == [key |-> key, timestamp |-> now, value |-> value]
    IN IF HasKey(s1, key)
       THEN [s1 EXCEPT ![IndexOf(s1, key)] = entry]
       ELSE Append(s1, entry)

TTLCache_set(store, key, value) ==
    LET s1 == IF Len(store) >= config.cache_max_entries /\ ~HasKey(store, key)
              THEN TTLCache_evict_oldest(store)
              ELSE store
        entry == [key |-> key, timestamp |-> now, value |-> value]
    IN IF HasKey(s1, key)
       THEN [s1 EXCEPT ![IndexOf(s1, key)] = entry]
       ELSE Append(s1, entry)

TTLCache_clear(store) == <<>>

\* ---------------------------------------------------- challenge detector
is_challenge_page(html) ==
    IF html.len > CHALLENGE_MAX_LENGTH
    THEN FALSE
    ELSE \E marker \in CHALLENGE_MARKERS : marker \in html.frags

\* A direct call of one of the synchronous functions (is_challenge_page and
\* the TTLCache methods): its arguments while phase is "call"; its result
\* and the store it ran on once phase is "ret".
UnitCall(op, key, arg) ==
    [phase |-> "call", op |-> op, key |-> key, arg |-> arg, ret |-> None,
     verdict |-> FALSE, before |-> <<>>]
NoUnit == [phase |-> "idle", op |-> "", key |-> "", arg |-> None, ret |-> None,
           verdict |-> FALSE, before |-> <<>>]

\* ----------------------------------------------------------- call state
\* The locals of one fetch call (pc, url, attempt, last_error, wake) and
\* what the call has done so far: how it ended (kind, html, error, via),
\* how many requests, limiter waits, backoff sleeps, retryable failures and
\* escalation calls it made, whether its warmup request failed, and the last
\* response and escalation outcome it received.
IdleCall ==
    [id |-> 0, pc |-> "idle", url |-> "", attempt |-> 0, last_error |-> NoError,
     wake |-> 0, kind |-> "none", html |-> None, error |-> NoError,
     via |-> "", requests |-> 0, waits |-> 0, backoffs |-> 0, failures |-> 0,
     escalations |-> 0, escalation_url |-> "", warmup_failed |-> FALSE,
     response |-> NoResponse, browser |-> NoOutcome]

St(p) == [c |-> client, k |-> calls[p], o |-> obs]

\* `return html` / `raise err` of fetch; via names the exit path taken.
Return(S, html, via) ==
    [S EXCEPT !.k.pc = "done", !.k.kind = "content", !.k.html = html, !.k.via = via]

\* `raise None` is a TypeError: exceptions must derive from BaseException.
Raise(S, err, via) ==
    [S EXCEPT !.k.pc = "done", !.k.kind = "error", !.k.via = via,
              !.k.error = IF err = NoError
                          THEN Error("TypeError", "exceptions must derive from BaseException", 0, "")
                          ELSE err]

\* asyncio.Semaphore (Python 3.11).  waiters holds the ids of the calls
\* waiting in acquire(), in arrival order; release() and a resuming waiter
\* wake the first waiter not yet woken, so the woken ones are the first
\* `woken` of waiters and resume in that order.  semaphore counts the slots
\* that no call holds: _value plus the slots handed to woken waiters.
\* _wake_up_next
wake_up_next(c) ==
    IF Len(c.waiters) > c.woken THEN [c EXCEPT !.woken = @ + 1] ELSE c

\* leaving `async with self._semaphore`: release()
Release(S) == [S EXCEPT !.c = wake_up_next([S.c EXCEPT !.semaphore = @ + 1])]

\* `await client.get(url)`: the request starts and the call suspends.
client_get(S) ==
    [S EXCEPT !.k.pc = "request", !.k.requests = @ + 1, !.k.wake = 0,
              !.o.last_start = now]

\* _enforce_rate_limit after its sleep (or without one), then the request.
rate_limit_stamp(S) == client_get([S EXCEPT !.c.last_request_time = now])

\* variant: the limiter never sleeps
enforce_rate_limit_no_wait(S) == rate_limit_stamp([S EXCEPT !.k.waits = @ + 1])

enforce_rate_limit(S) ==
    LET elapsed == now - S.c.last_request_time
        delay == config.request_delay_seconds - elapsed
        S1 == [S EXCEPT !.k.waits = @ + 1]
    IN IF delay > 0
       THEN [S1 EXCEPT !.k.pc = "rate_limit_sleep", !.k.wake = now + delay]
       ELSE rate_limit_stamp(S1)

\* variant: the next attempt follows without the backoff sleep
backoff_skipped(S) ==
    IF S.k.attempt < config.max_retries - 1
    THEN enforce_rate_limit([S EXCEPT !.k.attempt = @ + 1])
    ELSE Release(Raise(S, S.k.last_error, "exhausted"))

\* variant: every backoff sleeps one second
backoff_constant(S) ==
    IF S.k.attempt < config.max_retries - 1
    THEN [S EXCEPT !.k.pc = "backoff", !.k.wake = now + 1, !.k.backoffs = @ + 1]
    ELSE Release(Raise(S, S.k.last_error, "exhausted"))

\* lines 130-134: backoff unless this was the last attempt, else the loop
\* ends and last_error is raised.
backoff_or_raise(S) ==
    IF S.k.attempt < config.max_retries - 1
    THEN [S EXCEPT !.k.pc = "backoff", !.k.wake = now + 2 ^ S.k.attempt,
                   !.k.backoffs = @ + 1]
    ELSE Release(Raise(S, S.k.last_error, "exhausted"))

\* variant: the first recorded error is kept
retryable_keeps_first(S, err) ==
    backoff_or_raise([S EXCEPT !.k.last_error = IF @ = NoError THEN err ELSE @,
                               !.k.failures = @ + 1])

\* last_error = ...: a retryable failure is recorded
retryable(S, err) ==
    backoff_or_raise([S EXCEPT !.k.last_error = err, !.k.failures = @ + 1])

\* variant: the primary response is cached in place of the browser content
browser_returned_caches_response(S, b) ==
    LET S1 == [S EXCEPT !.k.browser = b]
    IN IF b.ok
       THEN Release(Return([S1 EXCEPT !.c.store =
                                TTLCache_set(S.c.store, S.k.url, S.k.response.text)],
                           b.html, "browser"))
       ELSE Release(Raise(S1, b.error, "browser_failed"))

\* variant: an escalation failure is recorded as retryable
browser_returned_retries(S, b) ==
    LET S1 == [S EXCEPT !.k.browser = b]
    IN IF b.ok
       THEN Release(Return([S1 EXCEPT !.c.store = TTLCache_set(S.c.store, S.k.url, b.html)],
                           b.html, "browser"))
       ELSE retryable(S1, b.error)

\* lines 148-150 once BrowserFetcher.fetch has returned or raised: the
\* content is cached and returned, an exception propagates as it is
browser_returned(S, b) ==
    LET S1 == [S EXCEPT !.k.browser = b]
    IN IF b.ok
       THEN Release(Return([S1 EXCEPT !.c.store = TTLCache_set(S.c.store, S.k.url, b.html)],
                           b.html, "browser"))
       ELSE Release(Raise(S1, b.error, "browser_failed"))

\* variant: browser_enabled is not consulted
fetch_with_browser_always(S) ==
    [S EXCEPT !.c.browser_fetcher = TRUE, !.k.pc = "browser",
              !.k.escalations = @ + 1, !.k.escalation_url = S.k.url]

\* lines 136-148, up to the first suspension of BrowserFetcher.fetch: without
\* nodriver no session was ever started, and `import nodriver` (browser.py
\* 48-53) fails before the call suspends
fetch_with_browser(S) ==
    IF ~config.browser_enabled
    THEN Release(Raise(S, Error("LoopnetClientError",
                                "Challenge page detected but browser fallback is disabled",
                                0, S.k.url),
                       "browser_disabled"))
    ELSE LET S1 == [S EXCEPT !.c.browser_fetcher = TRUE, !.k.escalations = @ + 1,
                             !.k.escalation_url = S.k.url]
         IN IF ~bw.nodriver
            THEN browser_returned(S1, Outcome(FALSE, None, NotInstalled))
            ELSE [S1 EXCEPT !.k.pc = "browser"]

\* variant: an unexpected status is recorded as retryable
on_response_retries_unexpected(S, r) ==
    LET S1 == [S EXCEPT !.k.response = r]
        url == S.k.url
    IN IF r.fault
       THEN retryable(S1, Error("LoopnetClientError", "Request failed", 0, url))
       ELSE IF r.status = 200
       THEN IF is_challenge_page(r.text)
            THEN fetch_with_browser(S1)
            ELSE Release(Return([S1 EXCEPT !.c.store = TTLCache_set(S.c.store, url, r.text)],
                                r.text, "primary"))
       ELSE IF r.status = 403
       THEN retryable(S1, Error("LoopnetBlockedError", "Blocked by Loopnet (403)", 403, url))
       ELSE IF r.status = 429
       THEN retryable(S1, Error("LoopnetRateLimitError", "Rate limited (429)", 429, url))
       ELSE IF r.status >= 500
       THEN retryable(S1, Error("LoopnetClientError", "Server error", r.status, url))
       ELSE retryable(S1, Error("LoopnetClientError", "Unexpected status", r.status, url))

\* variant: a primary success is returned without being cached
on_response_uncached(S, r) ==
    LET S1 == [S EXCEPT !.k.response = r]
        url == S.k.url
    IN IF r.fault
       THEN retryable(S1, Error("LoopnetClientError", "Request failed", 0, url))
       ELSE IF r.status = 200
       THEN IF is_challenge_page(r.text)
            THEN fetch_with_browser(S1)
            ELSE Release(Return(S1, r.text, "primary"))
       ELSE IF r.status = 403
       THEN retryable(S1, Error("LoopnetBlockedError", "Blocked by Loopnet (403)", 403, url))
       ELSE IF r.status = 429
       THEN retryable(S1, Error("LoopnetRateLimitError", "Rate limited (429)", 429, url))
       ELSE IF r.status >= 500
       THEN retryable(S1, Error("LoopnetClientError", "Server error", r.status, url))
       ELSE Release(Raise(S1, Error("LoopnetClientError", "Unexpected status", r.status, url),
                          "unexpected"))

\* lines 95-128 once client.get has returned r or raised RequestsError
on_response(S, r) ==
    LET S1 == [S EXCEPT !.k.response = r]
        url == S.k.url
    IN IF r.fault
       THEN retryable(S1, Error("LoopnetClientError", "Request failed", 0, url))
       ELSE IF r.status = 200
       THEN IF is_challenge_page(r.text)
            THEN fetch_with_browser(S1)
            ELSE Release(Return([S1 EXCEPT !.c.store = TTLCache_set(S.c.store, url, r.text)],
                                r.text, "primary"))
       ELSE IF r.status = 403
       THEN retryable(S1, Error("LoopnetBlockedError", "Blocked by Loopnet (403)", 403, url))
       ELSE IF r.status = 429
       THEN retryable(S1, Error("LoopnetRateLimitError", "Rate limited (429)", 429, url))
       ELSE IF r.status >= 500
       THEN retryable(S1, Error("LoopnetClientError", "Server error", r.status, url))
       ELSE Release(Raise(S1, Error("LoopnetClientError", "Unexpected status", r.status, url),
                          "unexpected"))

fetch_with_retries(S) ==
    LET S1 == [S EXCEPT !.c.client = TRUE, !.k.attempt = 0, !.k.last_error = NoError]
    IN IF 0 < config.max_retries
       THEN enforce_rate_limit(S1)
       ELSE Release(Raise(S1, S1.k.last_error, "exhausted"))

\* variant: the cache is not checked again inside the slot
in_slot_unchecked(S) == fetch_with_retries(S)

\* inside `async with self._semaphore`, after the slot is acquired
in_slot(S) ==
    LET g == TTLCache_get(S.c.store, S.k.url)
        S1 == [S EXCEPT !.c.store = g.store]
    IN IF g.value # None
       THEN Release(Return(S1, g.value, "cache_recheck"))
       ELSE fetch_with_retries(S1)

\* variant: the slot is taken without looking at the count
acquire_unchecked(S) == in_slot([S EXCEPT !.c.semaphore = @ - 1])

\* Semaphore.acquire: taken at once unless locked(), that is unless _value is
\* 0 or calls are already waiting; else the call joins the waiters
acquire(S) ==
    IF S.c.semaphore - S.c.woken > 0 /\ S.c.waiters = <<>>
    THEN in_slot([S EXCEPT !.c.semaphore = @ - 1])
    ELSE [S EXCEPT !.k.pc = "acquire", !.c.waiters = Append(@, S.k.id)]

\* Semaphore.acquire once the waiter was woken: it leaves the waiters with
\* the slot handed to it and, if _value is still positive, wakes the next
acquired(S) ==
    LET c1 == [S.c EXCEPT !.waiters = Tail(@), !.woken = @ - 1, !.semaphore = @ - 1]
        c2 == IF c1.semaphore - c1.woken > 0 THEN wake_up_next(c1) ELSE c1
    IN in_slot([S EXCEPT !.c = c2])

warmup(S) ==
    IF S.c.warmed_up
    THEN acquire(S)
    ELSE [S EXCEPT !.c.warmed_up = TRUE, !.c.client = TRUE,
                   !.k.pc = "warmup_get", !.o.warmups = @ + 1]

\* variant: a RequestsError of the warmup request reaches the caller
warmup_failed_raises(S) ==
    Raise(S, Error("LoopnetClientError", "Request failed", 0, S.k.url), "warmup_failed")

\* lines 67-72: the warmup request raised RequestsError; `pass`, then the
\* settle sleep
warmup_failed(S) ==
    [S EXCEPT !.k.pc = "warmup_sleep", !.k.wake = now + WARMUP_SETTLE_SECONDS,
              !.k.warmup_failed = TRUE]

fetch(S, url) ==
    LET g == TTLCache_get(S.c.store, url)
        S1 == [S EXCEPT !.c.store = g.store,
                        !.k = [IdleCall EXCEPT !.url = url, !.id = S.o.calls + 1],
                        !.o.calls = @ + 1]
    IN IF g.value # None
       THEN Return(S1, g.value, "cache_first")
       ELSE warmup(S1)

\* ------------------------------------------------------- BrowserFetcher
\* The escalation fetcher from the inside (browser.py 31-93), next to the
\* client lines that create and drop it (client.py 145-146, 153-155).  bw
\* holds the BrowserFetcher objects created so far (fetchers) with their
\* _browser and _lock, the one the client refers to (fetcher, 0 for None),
\* every browser session ever started (sessions), and one call of
\* BrowserFetcher.fetch per task (tasks).  Operators run on W = [b |-> bw].
BrowserContents == {Empty, PageChallenge, PageFloor, PageBrowser}

\* What page.get_content() gives: content, or an error of the browser.
Reads == {[ok |-> TRUE, html |-> h] : h \in BrowserContents}
         \cup {[ok |-> FALSE, html |-> None]}

\* One call of BrowserFetcher.fetch: the fetcher it uses (f), the session it
\* navigates (s), the locals html, deadline and wake, and what it has done:
\* whether it waited for the fetcher's lock, starts of the runtime,
\* navigations, reads inside and after the poll loop, closes of its page, and
\* how it ends (kind, result, error).
NoTask ==
    [pc |-> "idle", url |-> "", f |-> 0, s |-> 0, waited |-> FALSE, starts |-> 0, navs |-> 0,
     page |-> "none", html |-> Empty, deadline |-> 0, wake |-> 0,
     reads |-> 0, final_reads |-> 0, closes |-> 0,
     kind |-> "none", result |-> None, error |-> NoError]

\* nodriver: whether the package can be imported.  close_error: whether the
\* latest close() of the client raised.
BrowserWorld(installed) ==
    [nodriver |-> installed, fetcher |-> 0, fetchers |-> <<>>, sessions |-> <<>>,
     tasks |-> [p \in Procs |-> NoTask], close_error |-> FALSE]

Sw == [b |-> bw]

\* the call is over: its locals are gone
task_ends(W, p) ==
    [W EXCEPT !.b.tasks[p].pc = "done", !.b.tasks[p].html = Empty,
              !.b.tasks[p].deadline = 0, !.b.tasks[p].wake = 0]

\* an exception leaves BrowserFetcher.fetch
task_raise(W, p, err) ==
    task_ends([W EXCEPT !.b.tasks[p].kind = "error", !.b.tasks[p].error = err], p)

\* what the call gave its caller
OutcomeOf(t) == Outcome(t.kind = "content", t.result, t.error)

lock(W, f) == [W EXCEPT !.b.fetchers[f].locked = TRUE]
unlock(W, f) == [W EXCEPT !.b.fetchers[f].locked = FALSE]

\* line 63: `page = await self._browser.get(url)` starts
browser_get(W, p) ==
    [W EXCEPT !.b.tasks[p].pc = "navigating",
              !.b.tasks[p].s = W.b.fetchers[W.b.tasks[p].f].browser,
              !.b.tasks[p].navs = @ + 1]

\* lines 48-57, inside the lock: import nodriver, then `await nodriver.start`
start_runtime(W, p) ==
    IF ~W.b.nodriver
    THEN task_raise(unlock(W, W.b.tasks[p].f), p, NotInstalled)
    ELSE [W EXCEPT !.b.tasks[p].pc = "starting", !.b.tasks[p].starts = @ + 1]

\* lines 45-46: the second check, with the lock held
ensure_locked(W, p) ==
    LET f == W.b.tasks[p].f
    IN IF W.b.fetchers[f].browser # 0
       THEN browser_get(unlock(W, f), p)
       ELSE start_runtime(W, p)

\* variant: the runtime is started without taking the lock
ensure_browser_unlocked(W, p) ==
    LET f == W.b.tasks[p].f
    IN IF W.b.fetchers[f].browser # 0
       THEN browser_get(W, p)
       ELSE start_runtime(W, p)

\* _ensure_browser, lines 41-44: asyncio.Lock.acquire takes a free lock at
\* once unless other tasks already wait for it
ensure_browser(W, p) ==
    LET f == W.b.tasks[p].f
    IN IF W.b.fetchers[f].browser # 0
       THEN browser_get(W, p)
       ELSE IF /\ ~W.b.fetchers[f].locked
               /\ ~\E q \in Procs : W.b.tasks[q].pc = "lock_wait" /\ W.b.tasks[q].f = f
       THEN ensure_locked(lock(W, f), p)
       ELSE [W EXCEPT !.b.tasks[p].pc = "lock_wait", !.b.tasks[p].waited = TRUE]

\* line 55 once nodriver.start has returned a session or raised
start_returned(W, p, ok) ==
    LET f == W.b.tasks[p].f
        sid == Len(W.b.sessions) + 1
    IN IF ok
       THEN browser_get(unlock([W EXCEPT !.b.sessions = Append(@, [by |-> f, state |-> "live"]),
                                         !.b.fetchers[f].browser = sid], f), p)
       ELSE task_raise(unlock(W, f), p, BrowserError)

\* client.py 145-148: the fetcher is created on first use, then
\* BrowserFetcher.fetch(url) runs to its first suspension
escalate(W, p, url) ==
    LET W1 == [W EXCEPT !.b.tasks[p] = [NoTask EXCEPT !.url = url]]
        W2 == IF W1.b.fetcher = 0
              THEN [W1 EXCEPT !.b.fetchers = Append(@, [browser |-> 0, locked |-> FALSE]),
                              !.b.fetcher = Len(W1.b.fetchers) + 1]
              ELSE W1
    IN ensure_browser([W2 EXCEPT !.b.tasks[p].f = W2.b.fetcher], p)

\* `finally: await page.close()` starts, with the outcome pending
page_close(W, p) == [W EXCEPT !.b.tasks[p].pc = "page_close"]

\* lines 77-82
verdict(W, p) ==
    LET t == W.b.tasks[p]
    IN IF is_challenge_page(t.html)
       THEN page_close([W EXCEPT !.b.tasks[p].kind = "error",
                                 !.b.tasks[p].error = BrowserFetchError(t.url)], p)
       ELSE page_close([W EXCEPT !.b.tasks[p].kind = "content",
                                 !.b.tasks[p].result = t.html], p)

\* lines 74-75: `if not html: html = await page.get_content()`
after_loop(W, p) ==
    IF W.b.tasks[p].html.len = 0
    THEN [W EXCEPT !.b.tasks[p].pc = "final_read", !.b.tasks[p].final_reads = @ + 1]
    ELSE verdict(W, p)

\* line 68: the loop condition, then `await asyncio.sleep(1)`
poll_loop(W, p) ==
    IF now < W.b.tasks[p].deadline
    THEN [W EXCEPT !.b.tasks[p].pc = "poll_sleep",
                   !.b.tasks[p].wake = now + POLL_INTERVAL_SECONDS]
    ELSE after_loop(W, p)

\* lines 63-67 once the page is there
page_obtained(W, p) ==
    poll_loop([W EXCEPT !.b.tasks[p].page = "open", !.b.tasks[p].html = Empty,
                        !.b.tasks[p].deadline = now + config.browser_challenge_wait_seconds],
              p)

\* line 63 once browser.get has returned the page or raised
nav_returned(W, p, ok) ==
    IF ok THEN page_obtained(W, p) ELSE task_raise(W, p, BrowserError)

\* an error of get_content leaves the try block through finally
read_failed(W, p) ==
    page_close([W EXCEPT !.b.tasks[p].kind = "error", !.b.tasks[p].error = BrowserError], p)

\* variant: the loop goes on until the deadline whatever was read
poll_read_returned_no_break(W, p, r) ==
    IF ~r.ok
    THEN read_failed(W, p)
    ELSE poll_loop([W EXCEPT !.b.tasks[p].html = r.html], p)

\* lines 70-72 once get_content has returned or raised
poll_read_returned(W, p, r) ==
    IF ~r.ok
    THEN read_failed(W, p)
    ELSE LET W1 == [W EXCEPT !.b.tasks[p].html = r.html]
         IN IF ~is_challenge_page(r.html) /\ r.html.len > MIN_CONTENT_LENGTH
            THEN after_loop(W1, p)
            ELSE poll_loop(W1, p)

\* line 75 once get_content has returned or raised
final_read_returned(W, p, r) ==
    IF ~r.ok
    THEN read_failed(W, p)
    ELSE verdict([W EXCEPT !.b.tasks[p].html = r.html], p)

\* variant: the page is closed only when content is returned
page_closed_on_success(W, p, ok) ==
    IF W.b.tasks[p].kind = "content"
    THEN task_ends([W EXCEPT !.b.tasks[p].closes = @ + 1, !.b.tasks[p].page = "closed"], p)
    ELSE task_ends(W, p)

\* line 84 once page.close() has returned or raised: the pending outcome
\* leaves BrowserFetcher.fetch, or the exception of close() in its place
page_closed(W, p, ok) ==
    LET W1 == [W EXCEPT !.b.tasks[p].closes = @ + 1, !.b.tasks[p].page = "closed"]
    IN IF ok
       THEN task_ends(W1, p)
       ELSE task_raise([W1 EXCEPT !.b.tasks[p].result = None], p, CloseError)

\* BrowserFetcher.close, lines 86-93: stop() is called on the session, its
\* exception swallowed (stop_ok tells whether it raised), and _browser is
\* cleared; a session counts as stopped once stop() was called on it
BrowserFetcher_close(b, f, stop_ok) ==
    IF b.fetchers[f].browser = 0
    THEN b
    ELSE [b EXCEPT !.sessions[b.fetchers[f].browser].state = "stopped",
                   !.fetchers[f].browser = 0]

\* close(), lines 153-155, on the fetcher objects
close_fetcher(b, stop_ok) ==
    IF b.fetcher # 0
    THEN [BrowserFetcher_close(b, b.fetcher, stop_ok) EXCEPT !.fetcher = 0]
    ELSE b

\* close(), lines 153-155: the fetcher is shut down and dropped
close_browser(c) == [c EXCEPT !.browser_fetcher = FALSE]

\* variant: closing the session also forgets that the client warmed up
close_session_forgets_warmup(c, ok) ==
    IF c.client /\ ~ok THEN c ELSE [c EXCEPT !.client = FALSE, !.warmed_up = FALSE]

\* close(), lines 156-158: with a session, `await self._client.close()`,
\* and once it has returned the session is dropped; when it raises, line
\* 158 is not reached and the client keeps the session
close_session(c, ok) ==
    IF c.client /\ ~ok THEN c ELSE [c EXCEPT !.client = FALSE]

\* line 157: an exception of the session's close() leaves close()
close_raised(b, c, ok) ==
    IF c.client /\ ~ok THEN [b EXCEPT !.close_error = TRUE] ELSE b

\* ---------------------------------------------------------------- actions
Apply(p, S) ==
    /\ client' = S.c
    /\ calls' = [calls EXCEPT ![p] = S.k]
    /\ obs' = S.o
    /\ UNCHANGED <<config, now, unit, bw>>

\* The client as constructed.  time.monotonic() counts from an arbitrary
\* origin long before the process started, so the clock starts where the
\* limiter's initial timestamp 0.0 is already a full delay in the past.
InitClient(configs) ==
    /\ config \in configs
    /\ now = config.request_delay_seconds
    /\ client = [store |-> <<>>, semaphore |-> config.max_concurrent_requests,
                 waiters |-> <<>>, woken |-> 0,
                 last_request_time |-> 0, client |-> FALSE, warmed_up |-> FALSE,
                 browser_fetcher |-> FALSE]
    /\ calls = [p \in Procs |-> IdleCall]
    /\ obs = [calls |-> 0, warmups |-> 0, last_start |-> -1,
              close_pc |-> "idle", closed |-> -1]

InitWith(configs) ==
    /\ InitClient(configs)
    /\ unit = NoUnit
    /\ bw = BrowserWorld(TRUE)

\* Whether nodriver can be imported matters only where escalation is enabled.
Init ==
    /\ InitClient(Configs)
    /\ unit = NoUnit
    /\ bw \in {BrowserWorld(installed) :
                 installed \in IF config.browser_enabled THEN BOOLEAN ELSE {TRUE}}

InitConcurrent == InitWith(ConcurrentConfigs)

\* Tasks and URLs are interchangeable to the client: of the tasks that are
\* not inside a call the least one makes the next call, and the first URL
\* ever fetched is "u1".
Running(p) == calls[p].pc \notin {"idle", "done"}

Fetch(p, url) ==
    /\ ~Running(p)
    /\ \A q \in Procs : q < p => Running(q)
    /\ obs.calls = 0 => url = "u1"
    /\ obs.calls < MaxCalls
    /\ Apply(p, fetch(St(p), url))

\* the warmup request ended, with a response or with a RequestsError that
\* is swallowed: the settle sleep starts
WarmupDone(p) ==
    /\ calls[p].pc = "warmup_get"
    /\ Apply(p, [St(p) EXCEPT !.k.pc = "warmup_sleep",
                              !.k.wake = now + WARMUP_SETTLE_SECONDS])

WarmupSettled(p) ==
    /\ calls[p].pc = "warmup_sleep"
    /\ now >= calls[p].wake
    /\ Apply(p, acquire([St(p) EXCEPT !.k.wake = 0]))

AcquireSlot(p) ==
    /\ calls[p].pc = "acquire"
    /\ client.woken > 0
    /\ client.waiters[1] = calls[p].id
    /\ Apply(p, acquired(St(p)))

RateLimitWake(p) ==
    /\ calls[p].pc = "rate_limit_sleep"
    /\ now >= calls[p].wake
    /\ Apply(p, rate_limit_stamp(St(p)))

ResponseArrives(p, r) ==
    /\ calls[p].pc = "request"
    /\ Apply(p, on_response(St(p), r))

BackoffWake(p) ==
    /\ calls[p].pc = "backoff"
    /\ now >= calls[p].wake
    /\ Apply(p, enforce_rate_limit([St(p) EXCEPT !.k.attempt = @ + 1, !.k.wake = 0]))

BrowserDone(p, b) ==
    /\ calls[p].pc = "browser"
    /\ Apply(p, browser_returned(St(p), b))

Tick ==
    /\ now < MaxTime
    /\ now' = now + 1
    /\ UNCHANGED <<config, client, calls, obs, unit, bw>>

Next ==
    \/ \E p \in Procs, url \in URLs : Fetch(p, url)
    \/ \E p \in Procs : WarmupDone(p)
    \/ \E p \in Procs : WarmupSettled(p)
    \/ \E p \in Procs : AcquireSlot(p)
    \/ \E p \in Procs : RateLimitWake(p)
    \/ \E p \in Procs, r \in Responses : ResponseArrives(p, r)
    \/ \E p \in Procs : BackoffWake(p)
    \/ \E p \in Procs : \E b \in BrowserOutcomes(calls[p].url) : BrowserDone(p, b)
    \/ Tick

Spec == Init /\ [][Next]_vars

SpecConcurrent == InitConcurrent /\ [][Next]_vars

\* close(): up to `await self._client.close()`, where it suspends when there
\* is a session, then the rest.  obs.closed is the number of fetch calls
\* started before the latest close() began.
CloseBegin(stop_ok) ==
    /\ obs.close_pc = "idle"
    /\ client' = close_browser(client)
    /\ bw' = [close_fetcher(bw, stop_ok) EXCEPT !.close_error = FALSE]
    /\ obs' = [obs EXCEPT !.closed = obs.calls,
                          !.close_pc = IF client.client THEN "session_close" ELSE "idle"]
    /\ UNCHANGED <<config, now, calls, unit>>

\* the session's close() has returned (ok) or raised
CloseEnd(ok) ==
    /\ obs.close_pc = "session_close"
    /\ client' = close_session(client, ok)
    /\ bw' = close_raised(bw, client, ok)
    /\ obs' = [obs EXCEPT !.close_pc = "idle"]
    /\ UNCHANGED <<config, now, calls, unit>>

\* with a retry budget of one no call ever backs off
NextLifetime ==
    \/ \E p \in Procs, url \in URLs : Fetch(p, url)
    \/ \E p \in Procs : WarmupDone(p)
    \/ \E p \in Procs : WarmupSettled(p)
    \/ \E p \in Procs : AcquireSlot(p)
    \/ \E p \in Procs : RateLimitWake(p)
    \/ \E p \in Procs, r \in Responses : ResponseArrives(p, r)
    \/ \E p \in Procs : \E b \in BrowserOutcomes(calls[p].url) : BrowserDone(p, b)
    \/ \E stop_ok \in BOOLEAN : CloseBegin(stop_ok)
    \/ \E ok \in BOOLEAN : CloseEnd(ok)
    \/ Tick

\* fetch calls and close() calls of one client, in any interleaving, on the
\* default single slot with one attempt per call and a cache of one entry
LifetimeConfigs == {LoopnetConfig(1, 1, 1, TRUE)}

InitLifetime == InitWith(LifetimeConfigs)

SpecLifetime == InitLifetime /\ [][NextLifetime]_vars

\* The warmup request told apart by its outcome: WarmupDone is then the
\* request that was answered, WarmupFailed the one that raised RequestsError.
WarmupFailed(p) ==
    /\ calls[p].pc = "warmup_get"
    /\ Apply(p, warmup_failed(St(p)))

NextWarmup ==
    \/ Next
    \/ \E p \in Procs : WarmupFailed(p)

\* the default single slot, a retry budget of two
WarmupConfigs == {LoopnetConfig(1, 2, 2, TRUE)}

InitWarmup == InitWith(WarmupConfigs)

SpecWarmup == InitWarmup /\ [][NextWarmup]_vars

\* Two fetch calls timed from the start of the first, as in
\* test_rate_limiting_enforces_delay: the client has its warmup pre-completed
\* (_test_client) and the first call, for "u1", starts at the initial
\* instant, FirstStart.
FirstStart == config.request_delay_seconds

SequentialConfigs == {LoopnetConfig(1, r, 2, TRUE) : r \in {1, 2}}

InitSequential ==
    /\ config \in SequentialConfigs
    /\ now = FirstStart
    /\ LET S0 == [c |-> [store |-> <<>>, semaphore |-> config.max_concurrent_requests,
                         waiters |-> <<>>, woken |-> 0,
                         last_request_time |-> 0, client |-> FALSE, warmed_up |-> TRUE,
                         browser_fetcher |-> FALSE],
                  k |-> IdleCall,
                  o |-> [calls |-> 0, warmups |-> 0, last_start |-> -1,
                         close_pc |-> "idle", closed |-> -1]]
           S1 == fetch(S0, "u1")
       IN /\ client = S1.c
          /\ calls = [p \in Procs |-> IF p = 1 THEN S1.k ELSE IdleCall]
          /\ obs = S1.o
    /\ unit = NoUnit
    /\ bw = BrowserWorld(TRUE)

\* a warmed-up client issues no warmup request
NextSequential ==
    \/ \E p \in Procs, url \in URLs : Fetch(p, url)
    \/ \E p \in Procs : AcquireSlot(p)
    \/ \E p \in Procs : RateLimitWake(p)
    \/ \E p \in Procs, r \in Responses : ResponseArrives(p, r)
    \/ \E p \in Procs : BackoffWake(p)
    \/ \E p \in Procs : \E b \in BrowserOutcomes(calls[p].url) : BrowserDone(p, b)
    \/ Tick

SpecSequential == InitSequential /\ [][NextSequential]_vars

\* Fair scheduling: the event loop resumes every task that is ready, an
\* awaited request of the transport completes, with a response or an error
\* (the session has a timeout, client.py 50), time advances, and
\* asyncio.Semaphore wakes its waiters in turn, so a call that finds a free
\* slot again and again takes one.  Nothing bounds the awaits of
\* BrowserFetcher.fetch (browser_timeout_seconds is read nowhere), so no
\* fairness is stated for the end of an escalation.
Resume(p) ==
    \/ WarmupDone(p)
    \/ WarmupSettled(p)
    \/ RateLimitWake(p)
    \/ \E r \in Responses : ResponseArrives(p, r)
    \/ BackoffWake(p)

Fairness ==
    /\ WF_vars(Tick)
    /\ \A p \in Procs : WF_vars(Resume(p)) /\ SF_vars(AcquireSlot(p))

\* A retry budget of two, with the default single slot and with a pool of
\* no slot at all: max_concurrent_requests is any int, and
\* asyncio.Semaphore accepts 0.
FairConfigs == {LoopnetConfig(n, 2, 2, TRUE) : n \in {0, 1}}

InitFair == InitWith(FairConfigs)

SpecFair == InitFair /\ [][Next]_vars /\ Fairness

\* ------------------------------------------------- escalation, in detail
\* The fetch calls with BrowserFetcher.fetch run step by step in place of
\* BrowserDone.  A step of the fetcher that ends BrowserFetcher.fetch goes on
\* in _fetch_with_browser with its outcome (client.py 148-150).
ApplyBrowser(p, W) ==
    /\ bw' = W.b
    /\ IF W.b.tasks[p].pc = "done"
       THEN LET S == browser_returned(St(p), OutcomeOf(W.b.tasks[p]))
            IN /\ client' = S.c
               /\ calls' = [calls EXCEPT ![p] = S.k]
               /\ obs' = S.o
       ELSE UNCHANGED <<client, calls, obs>>
    /\ UNCHANGED <<config, now, unit>>

Escalating(p) == calls[p].pc = "browser"

\* The response to a request of call p is a challenge page: the call
\* escalates (or raises, with escalation disabled), and BrowserFetcher.fetch
\* runs to its first suspension.
ChallengeArrives(p) ==
    /\ calls[p].pc = "request"
    /\ LET S == on_response(St(p), Response(FALSE, 200, PageChallenge))
           W == IF S.k.escalations > 0 THEN escalate(Sw, p, calls[p].url) ELSE Sw
       IN /\ client' = S.c
          /\ calls' = [calls EXCEPT ![p] = S.k]
          /\ obs' = S.o
          /\ bw' = W.b
    /\ UNCHANGED <<config, now, unit>>

LockWake(p) ==
    /\ Escalating(p)
    /\ bw.tasks[p].pc = "lock_wait"
    /\ ~bw.fetchers[bw.tasks[p].f].locked
    /\ ApplyBrowser(p, ensure_locked(lock(Sw, bw.tasks[p].f), p))

StartDone(p, ok) ==
    /\ Escalating(p)
    /\ bw.tasks[p].pc = "starting"
    /\ ApplyBrowser(p, start_returned(Sw, p, ok))

NavDone(p, ok) ==
    /\ Escalating(p)
    /\ bw.tasks[p].pc = "navigating"
    /\ ApplyBrowser(p, nav_returned(Sw, p, ok))

\* the poll sleep is over: `await page.get_content()` starts
PollWake(p) ==
    /\ Escalating(p)
    /\ bw.tasks[p].pc = "poll_sleep"
    /\ now >= bw.tasks[p].wake
    /\ ApplyBrowser(p, [Sw EXCEPT !.b.tasks[p].pc = "poll_read", !.b.tasks[p].reads = @ + 1,
                                  !.b.tasks[p].wake = 0])

PollRead(p, r) ==
    /\ Escalating(p)
    /\ bw.tasks[p].pc = "poll_read"
    /\ ApplyBrowser(p, poll_read_returned(Sw, p, r))

FinalRead(p, r) ==
    /\ Escalating(p)
    /\ bw.tasks[p].pc = "final_read"
    /\ ApplyBrowser(p, final_read_returned(Sw, p, r))

PageClosed(p, ok) ==
    /\ Escalating(p)
    /\ bw.tasks[p].pc = "page_close"
    /\ ApplyBrowser(p, page_closed(Sw, p, ok))

\* the steps of a call from fetch() to its request
NextToRequest ==
    \/ \E p \in Procs, url \in URLs : Fetch(p, url)
    \/ \E p \in Procs : WarmupDone(p)
    \/ \E p \in Procs : WarmupSettled(p)
    \/ \E p \in Procs : RateLimitWake(p)

\* the steps of BrowserFetcher.fetch once it has begun; with a single slot
\* no call ever waits for the fetcher's lock
NextInFetch ==
    \/ \E p \in Procs, ok \in BOOLEAN : StartDone(p, ok)
    \/ \E p \in Procs, ok \in BOOLEAN : NavDone(p, ok)
    \/ \E p \in Procs : PollWake(p)
    \/ \E p \in Procs, r \in Reads : PollRead(p, r)
    \/ \E p \in Procs, r \in Reads : FinalRead(p, r)
    \/ \E p \in Procs, ok \in BOOLEAN : PageClosed(p, ok)

\* fetch calls answered by challenge pages
NextBrowser ==
    \/ NextToRequest
    \/ \E p \in Procs : AcquireSlot(p)
    \/ \E p \in Procs : ChallengeArrives(p)
    \/ NextInFetch
    \/ Tick

WaitBudget(cfg, w) == [cfg EXCEPT !.browser_challenge_wait_seconds = w]

\* The default single slot with one attempt per call, and a wait budget of
\* two poll intervals or none.
BrowserConfigs == {WaitBudget(LoopnetConfig(1, 1, 1, TRUE), w) : w \in {0, 2}}

InitBrowserWith(configs) ==
    /\ InitClient(configs)
    /\ unit = NoUnit
    /\ bw \in {BrowserWorld(installed) : installed \in BOOLEAN}

InitBrowser == InitBrowserWith(BrowserConfigs)

SpecBrowser == InitBrowser /\ [][NextBrowser]_vars

\* the same calls interleaved with close() calls of the client
NextBrowserClose ==
    \/ NextBrowser
    \/ \E stop_ok \in BOOLEAN : CloseBegin(stop_ok)
    \/ \E ok \in BOOLEAN : CloseEnd(ok)

SpecBrowserClose == InitBrowser /\ [][NextBrowserClose]_vars

\* Escalations side by side on two slots, racing on the first use of the
\* fetcher; a wait budget of one poll interval, and no close().  With a slot
\* for each of the two tasks no call waits for one.
NextRace ==
    \/ NextToRequest
    \/ \E p \in Procs : ChallengeArrives(p)
    \/ \E p \in Procs : LockWake(p)
    \/ NextInFetch
    \/ Tick

RaceConfigs == {WaitBudget(LoopnetConfig(2, 1, 1, TRUE), 1)}

InitRace == InitBrowserWith(RaceConfigs)

SpecRace == InitRace /\ [][NextRace]_vars

\* The client and its fetcher used by one caller at a time, as in the unit
\* tests: a fetch, close() of the client and close() of a BrowserFetcher
\* each begin only when no other call is in progress, so no call waits for
\* a slot.
Quiet == obs.close_pc = "idle" /\ \A p \in Procs : ~Running(p)

\* BrowserFetcher.close() called on fetcher f
FetcherClose(f, stop_ok) ==
    /\ bw' = BrowserFetcher_close(bw, f, stop_ok)
    /\ UNCHANGED <<config, now, client, calls, obs, unit>>

NextClose ==
    \/ Quiet /\ \E p \in Procs, url \in URLs : Fetch(p, url)
    \/ \E p \in Procs : WarmupDone(p)
    \/ \E p \in Procs : WarmupSettled(p)
    \/ \E p \in Procs : RateLimitWake(p)
    \/ \E p \in Procs : ChallengeArrives(p)
    \/ NextInFetch
    \/ Quiet /\ \E stop_ok \in BOOLEAN : CloseBegin(stop_ok)
    \/ \E ok \in BOOLEAN : CloseEnd(ok)
    \/ Quiet /\ \E f \in 1..Len(bw.fetchers), stop_ok \in BOOLEAN : FetcherClose(f, stop_ok)
    \/ Tick

SpecClose == InitBrowser /\ [][NextClose]_vars

\* ------------------------------------- the synchronous functions, directly
\* TTLCache and is_challenge_page called on their own, as the unit tests do:
\* a call is drawn with its arguments, then the function runs on the
\* client's cache at the current time.
CacheKeys == URLs \cup {"u3"}
CacheValues == {PageSmall, PageBrowser}
DetectorLengths ==
    {0, PageChallenge.len, CHALLENGE_MAX_LENGTH - 1, CHALLENGE_MAX_LENGTH,
     CHALLENGE_MAX_LENGTH + 1, PageLargeMarked.len}
DetectorFrags ==
    {{}, {"listing"}, CHALLENGE_MARKERS} \cup {{m} : m \in CHALLENGE_MARKERS}
DetectorPages ==
    {Html("probe", n, f) : n \in {l \in DetectorLengths : l > 0}, f \in DetectorFrags}
    \cup {Html("probe", 0, {})}
UnitCalls ==
    {UnitCall("is_challenge_page", "", h) : h \in DetectorPages}
    \cup {UnitCall("get", k, None) : k \in CacheKeys}
    \cup {UnitCall("set", k, v) : k \in CacheKeys, v \in CacheValues}
    \cup {UnitCall("clear", "", None)}

\* TTLCache(ttl_seconds=3, max_entries=m); max_entries is any int.
UnitConfigs == {LoopnetConfig(1, 0, m, FALSE) : m \in 0..2}

InitUnits ==
    /\ InitClient(UnitConfigs)
    /\ unit \in UnitCalls
    /\ bw = BrowserWorld(TRUE)

UnitDraw(c) ==
    /\ unit.phase = "ret"
    /\ unit' = c
    /\ UNCHANGED <<config, now, client, calls, obs, bw>>

Pending(op) == unit.phase = "call" /\ unit.op = op

Detect ==
    /\ Pending("is_challenge_page")
    /\ unit' = [unit EXCEPT !.phase = "ret", !.verdict = is_challenge_page(unit.arg)]
    /\ UNCHANGED <<config, now, client, calls, obs, bw>>

CacheGet ==
    /\ Pending("get")
    /\ LET g == TTLCache_get(client.store, unit.key)
       IN /\ client' = [client EXCEPT !.store = g.store]
          /\ unit' = [unit EXCEPT !.phase = "ret", !.ret = g.value,
                                   !.before = client.store]
    /\ UNCHANGED <<config, now, calls, obs, bw>>

CacheSet ==
    /\ Pending("set")
    /\ client' = [client EXCEPT !.store = TTLCache_set(client.store, unit.key, unit.arg)]
    /\ unit' = [unit EXCEPT !.phase = "ret", !.before = client.store]
    /\ UNCHANGED <<config, now, calls, obs, bw>>

CacheClear ==
    /\ Pending("clear")
    /\ client' = [client EXCEPT !.store = TTLCache_clear(client.store)]
    /\ unit' = [unit EXCEPT !.phase = "ret", !.before = client.store]
    /\ UNCHANGED <<config, now, calls, obs, bw>>

NextUnits ==
    \/ \E c \in UnitCalls : UnitDraw(c)
    \/ Detect
    \/ CacheGet
    \/ CacheSet
    \/ CacheClear
    \/ Tick

SpecUnits == InitUnits /\ [][NextUnits]_vars

\* ------------------------------------------------------------- properties
\* A step that ran the drawn call of op.
Ran(op) == Pending(op) /\ unit'.phase = "ret"
Entries(store) == {store[i] : i \in 1..Len(store)}
Keys(store) == {store[i].key : i \in 1..Len(store)}
EntryOf(store, key) == store[CHOOSE i \in 1..Len(store) : store[i].key = key]
Age(e) == now - e.timestamp

\* What a step did to call p.
Started(p) == calls'[p].id # calls[p].id
ResponseStep(p) == calls[p].pc = "request" /\ calls'[p].pc # "request"
BrowserStep(p) == calls[p].pc = "browser" /\ calls'[p].pc # "browser"
\* the step in which BrowserFetcher.fetch raised: at once, or after it had
\* suspended
EscalationFailed(p) ==
    /\ calls'[p].escalations = 1
    /\ \/ BrowserStep(p)
       \/ ResponseStep(p) /\ calls'[p].pc = "done"
Dispatched(p) == calls'[p].pc = "request" /\ (calls[p].pc # "request" \/ Started(p))
Escalated(p) == calls'[p].pc = "browser" /\ (calls[p].pc # "browser" \/ Started(p))

\* The step ended call p: with content from the primary transport or from
\* the escalation, or with an error.
Succeeded(p) ==
    /\ calls[p].pc \in {"request", "browser"}
    /\ calls'[p].pc = "done"
    /\ calls'[p].kind = "content"
Failed(p) ==
    /\ Started(p) \/ calls[p].pc # "done"
    /\ calls'[p].pc = "done"
    /\ calls'[p].kind = "error"
Written(p) == [key |-> calls[p].url, timestamp |-> now, value |-> calls'[p].html]

\* Where a call is: before the concurrency gate, or holding a slot.
BeforeSlot(p) == calls[p].pc \in {"warmup_get", "warmup_sleep", "acquire"}
InSlot(p) == calls[p].pc \in {"rate_limit_sleep", "request", "backoff", "browser"}
\* The step took call p through the gate: `async with self._semaphore` entered.
Entered(p) ==
    /\ client.semaphore > 0
    /\ \/ calls[p].pc \in {"warmup_sleep", "acquire"} /\ calls'[p].pc # calls[p].pc
       \/ Started(p) /\ calls'[p].via # "cache_first" /\ ~BeforeSlot(p)'

\* The cases the properties speak of, stated on the inputs.
LiveEntry(store, url) ==
    \E i \in 1..Len(store) :
        store[i].key = url /\ now - store[i].timestamp < config.cache_ttl_seconds
LiveValue(store, url) == store[CHOOSE i \in 1..Len(store) : store[i].key = url].value
CachedNow(store, url, html) ==
    \E i \in 1..Len(store) :
        store[i].key = url /\ store[i].value = html /\ store[i].timestamp = now
HasMarker(html) == html.frags \cap CHALLENGE_MARKERS # {}
RetryableResponse(r) == r.fault \/ r.status \in {403, 429} \/ r.status >= 500
UnexpectedStatus(r) == ~r.fault /\ r.status \notin {200, 403, 429} /\ r.status < 500
ChallengeResponse(r) == ~r.fault /\ r.status = 200 /\ is_challenge_page(r.text)
ErrorClassOf(r) ==
    IF ~r.fault /\ r.status = 403 THEN "LoopnetBlockedError"
    ELSE IF ~r.fault /\ r.status = 429 THEN "LoopnetRateLimitError"
    ELSE "LoopnetClientError"
Taxonomy ==
    {"LoopnetBlockedError", "LoopnetRateLimitError", "LoopnetClientError", "BrowserFetchError"}

\* C1: a fetch of a URL whose cache entry is unexpired returns the cached
\* content at once: no request, no warmup, no limiter wait (the last-dispatch
\* timestamp is unchanged) and no escalation.
C1_CacheHitBypassesPipeline ==
    [][\A p \in Procs :
        (Started(p) /\ LiveEntry(client.store, calls'[p].url)) =>
            /\ calls'[p].pc = "done"
            /\ calls'[p].kind = "content"
            /\ calls'[p].html = LiveValue(client.store, calls'[p].url)
            /\ calls'[p].requests = 0
            /\ calls'[p].waits = 0
            /\ calls'[p].escalations = 0
            /\ client'.last_request_time = client.last_request_time
            /\ client'.warmed_up = client.warmed_up
            /\ obs'.warmups = obs.warmups
            /\ obs'.last_start = obs.last_start]_vars

C1_Witness ==
    \E p \in Procs :
        /\ calls[p].pc = "done"
        /\ calls[p].via = "cache_first"
        /\ calls[p].html \in {PageSmall, PageLargeMarked, PageBrowser}
        /\ client.warmed_up

\* C2: the starts of any two consecutive primary-transport requests are at
\* least request_delay_seconds apart, whatever max_concurrent_requests is.
C2_MinimumSpacing ==
    [][\A p \in Procs :
        (Dispatched(p) /\ obs.last_start # -1) =>
            now - obs.last_start >= config.request_delay_seconds]_vars

\* C3: k retryable failures followed by a 200 non-challenge response end the
\* call with that response's content after k+1 requests and k backoff
\* sleeps, and the content is cached under the URL.
C3_RetryThenSuccess ==
    [][\A p \in Procs :
        (/\ ResponseStep(p)
         /\ ~calls'[p].response.fault
         /\ calls'[p].response.status = 200
         /\ ~is_challenge_page(calls'[p].response.text)) =>
            /\ calls'[p].pc = "done"
            /\ calls'[p].kind = "content"
            /\ calls'[p].html = calls'[p].response.text
            /\ calls'[p].failures < config.max_retries
            /\ calls'[p].requests = calls'[p].failures + 1
            /\ calls'[p].backoffs = calls'[p].failures
            /\ CachedNow(client'.store, calls'[p].url, calls'[p].response.text)]_vars

C3_Witness ==
    \E p \in Procs :
        /\ calls[p].pc = "done"
        /\ calls[p].via = "primary"
        /\ calls[p].failures = 2
        /\ calls[p].requests = 3
        /\ calls[p].backoffs = 2
        /\ calls[p].html = PageSmall

\* C4: a call whose max_retries attempts all ended in a retryable failure
\* has made exactly max_retries requests and raises the error of the last
\* attempt's class (blocked for 403, rate limit for 429, client error for
\* >= 500 or a fault), naming the URL.
C4_ExhaustedRaisesLast ==
    \A p \in Procs :
        (/\ calls[p].pc = "done"
         /\ calls[p].requests > 0
         /\ RetryableResponse(calls[p].response)) =>
            /\ calls[p].kind = "error"
            /\ calls[p].requests = config.max_retries
            /\ calls[p].failures = config.max_retries
            /\ calls[p].error.type = ErrorClassOf(calls[p].response)
            /\ calls[p].error.url = calls[p].url

C4_Witness ==
    \E p \in Procs :
        /\ calls[p].pc = "done"
        /\ calls[p].via = "exhausted"
        /\ config.max_retries = 3
        /\ calls[p].requests = 3
        /\ calls[p].response.status = 403
        /\ calls[p].error.type = "LoopnetBlockedError"

\* C5: a fetch call ends with content or with one of the taxonomy errors,
\* for every max_retries value and escalation setting.
C5_OnlyTaxonomyErrors ==
    \A p \in Procs :
        calls[p].pc = "done" =>
            \/ calls[p].kind = "content"
            \/ calls[p].kind = "error" /\ calls[p].error.type \in Taxonomy

\* C6: with escalation enabled a 200 challenge response triggers exactly
\* one escalation fetch, for the call's URL; when that succeeds the call
\* returns the escalation content, that content is cached under the URL,
\* and the call makes no further request.
C6_ChallengeEscalatesOnce ==
    [][\A p \in Procs :
        /\ (ResponseStep(p) /\ ChallengeResponse(calls'[p].response)
                /\ config.browser_enabled) =>
            /\ IF bw.nodriver
               THEN calls'[p].pc = "browser"
               ELSE calls'[p].pc = "done" /\ calls'[p].error = NotInstalled
            /\ calls'[p].escalations = 1
            /\ calls'[p].escalation_url = calls[p].url
        /\ (BrowserStep(p) /\ calls'[p].browser.ok) =>
            /\ calls'[p].pc = "done"
            /\ calls'[p].kind = "content"
            /\ calls'[p].html = calls'[p].browser.html
            /\ calls'[p].html # calls[p].response.text
            /\ CachedNow(client'.store, calls[p].url, calls'[p].browser.html)
            /\ calls'[p].escalations = 1
            /\ calls'[p].requests = calls[p].requests]_vars

C6_Witness ==
    \E p \in Procs :
        /\ calls[p].pc = "done"
        /\ calls[p].via = "browser"
        /\ calls[p].response.text = PageChallenge
        /\ calls[p].html = PageBrowser
        /\ calls[p].escalations = 1
        /\ calls[p].escalation_url = calls[p].url

\* C7: when the escalation fetch fails the call ends at once with the
\* escalation error: no further request and no backoff sleep, even when
\* attempts remain.
C7_EscalationFailurePropagates ==
    [][\A p \in Procs :
        (EscalationFailed(p) /\ ~calls'[p].browser.ok) =>
            /\ calls'[p].pc = "done"
            /\ calls'[p].kind = "error"
            /\ calls'[p].error = calls'[p].browser.error
            /\ calls'[p].error # NoError
            /\ calls'[p].requests = calls[p].requests
            /\ calls'[p].backoffs = calls[p].backoffs
            /\ calls'[p].escalations = 1]_vars

C7_Witness ==
    \E p \in Procs :
        /\ calls[p].pc = "done"
        /\ calls[p].via = "browser_failed"
        /\ calls[p].attempt < config.max_retries - 1
        /\ calls[p].requests = 1

\* C8: the escalation fetcher is invoked only on a 200 response, never after
\* 403, 429, >= 500 or a fault, and never for a 200 response of 10,000 or
\* more characters that contains a marker: that one is cached and returned.
C8_EscalationOnlyOnSmallChallenge ==
    [][\A p \in Procs :
        /\ Escalated(p) =>
            /\ ResponseStep(p)
            /\ ~calls'[p].response.fault
            /\ calls'[p].response.status = 200
        /\ (/\ ResponseStep(p)
            /\ ~calls'[p].response.fault
            /\ calls'[p].response.status = 200
            /\ calls'[p].response.text.len >= 10000
            /\ HasMarker(calls'[p].response.text)) =>
            /\ calls'[p].pc = "done"
            /\ calls'[p].kind = "content"
            /\ calls'[p].html = calls'[p].response.text
            /\ calls'[p].escalations = 0
            /\ CachedNow(client'.store, calls[p].url, calls'[p].response.text)]_vars

\* C9: with escalation disabled a 200 challenge response makes the call
\* raise LoopnetClientError naming the URL, with no escalation call, no
\* BrowserFetcher created, no further request and nothing cached.
C9_DisabledEscalationRaises ==
    [][\A p \in Procs :
        (ResponseStep(p) /\ ChallengeResponse(calls'[p].response)
            /\ ~config.browser_enabled) =>
            /\ calls'[p].pc = "done"
            /\ calls'[p].kind = "error"
            /\ calls'[p].error.type = "LoopnetClientError"
            /\ calls'[p].error.url = calls[p].url
            /\ calls'[p].escalations = 0
            /\ ~client'.browser_fetcher
            /\ client'.store = client.store
            /\ calls'[p].requests = calls[p].requests
            /\ calls'[p].backoffs = calls[p].backoffs]_vars

C9_Witness ==
    \E p \in Procs :
        /\ calls[p].pc = "done"
        /\ calls[p].via = "browser_disabled"
        /\ ~config.browser_enabled
        /\ calls[p].response.text = PageChallenge
        /\ calls[p].escalations = 0

\* C10: a status other than 200, 403, 429 or >= 500 ends the call at once
\* with LoopnetClientError naming the URL: no further request, no backoff
\* sleep, no escalation, whatever attempts remain.
C10_UnexpectedStatusFailsFast ==
    [][\A p \in Procs :
        (ResponseStep(p) /\ UnexpectedStatus(calls'[p].response)) =>
            /\ calls'[p].pc = "done"
            /\ calls'[p].kind = "error"
            /\ calls'[p].error.type = "LoopnetClientError"
            /\ calls'[p].error.url = calls[p].url
            /\ calls'[p].requests = calls[p].requests
            /\ calls'[p].backoffs = calls[p].backoffs
            /\ calls'[p].escalations = 0]_vars

C10_Witness ==
    \E p \in Procs :
        /\ calls[p].pc = "done"
        /\ calls[p].via = "unexpected"
        /\ calls[p].response.status = 404
        /\ calls[p].attempt = 0
        /\ config.max_retries = 3
        /\ calls[p].requests = 1

\* C11: is_challenge_page is false for every content of 10,000 or more
\* characters, true for every content of fewer than 10,000 characters that
\* contains a known marker, and false for every content without a marker.
C11_DetectorVerdict ==
    (unit.phase = "ret" /\ unit.op = "is_challenge_page") =>
        /\ unit.arg.len >= 10000 => ~unit.verdict
        /\ (unit.arg.len < 10000 /\ HasMarker(unit.arg)) => unit.verdict
        /\ ~HasMarker(unit.arg) => ~unit.verdict

\* C12: after any sequence of set, get and clear the cache holds at most
\* max_entries entries, for every max_entries value.
C12_SizeBounded == Len(client.store) <= config.cache_max_entries

\* C13: a set of a key that is not stored, on a store that holds max_entries
\* entries, evicts exactly one entry, one of least stored_at, leaves every
\* other entry as it was and ends with max_entries entries.
C13_EvictsOneOldest ==
    [][(/\ Ran("set")
        /\ ~HasKey(client.store, unit.key)
        /\ Len(client.store) = config.cache_max_entries) =>
            /\ Len(client'.store) = config.cache_max_entries
            /\ \E e \in Entries(client.store) :
                /\ \A f \in Entries(client.store) : e.timestamp <= f.timestamp
                /\ Entries(client'.store) =
                       (Entries(client.store) \ {e})
                       \cup {[key |-> unit.key, timestamp |-> now, value |-> unit.arg]}]_vars

\* C14: get returns the stored value exactly when the key is present and
\* now - stored_at < ttl (age = ttl is absent); an expired entry is removed
\* by the get, which returns absent; no other entry changes.
C14_GetServesLiveOnly ==
    [][Ran("get") =>
        IF HasKey(client.store, unit.key)
        THEN LET e == EntryOf(client.store, unit.key)
             IN IF Age(e) < config.cache_ttl_seconds
                THEN unit'.ret = e.value /\ client'.store = client.store
                ELSE /\ unit'.ret = None
                     /\ Len(client'.store) = Len(client.store) - 1
                     /\ Entries(client'.store) = Entries(client.store) \ {e}
        ELSE unit'.ret = None /\ client'.store = client.store]_vars

C14_Witness ==
    /\ unit.phase = "ret"
    /\ unit.op = "get"
    /\ HasKey(unit.before, unit.key)
    /\ Age(EntryOf(unit.before, unit.key)) = config.cache_ttl_seconds
    /\ unit.ret = None
    /\ Len(unit.before) = 2
    /\ Len(client.store) = 1
    /\ ~HasKey(client.store, unit.key)

\* C15: a set of a key that is already stored evicts nothing, also on a full
\* store: the keys and the size stay, the key's value becomes the new value
\* and its stored_at the current time.
C15_OverwriteKeepsEntries ==
    [][(Ran("set") /\ HasKey(client.store, unit.key)) =>
        /\ Keys(client'.store) = Keys(client.store)
        /\ Len(client'.store) = Len(client.store)
        /\ EntryOf(client'.store, unit.key) =
              [key |-> unit.key, timestamp |-> now, value |-> unit.arg]
        /\ \A k \in Keys(client.store) \ {unit.key} :
              EntryOf(client'.store, k) = EntryOf(client.store, k)]_vars

C15_Witness ==
    /\ unit.phase = "ret"
    /\ unit.op = "set"
    /\ config.cache_max_entries = 2
    /\ Len(unit.before) = 2
    /\ HasKey(unit.before, unit.key)
    /\ EntryOf(unit.before, unit.key).value # unit.arg
    /\ \A e \in Entries(unit.before) : EntryOf(unit.before, unit.key).timestamp <= e.timestamp
    /\ EntryOf(unit.before, unit.key).timestamp < now
    /\ Keys(client.store) = Keys(unit.before)
    /\ EntryOf(client.store, unit.key).value = unit.arg

\* What C16 says of every step but the lifetime of an entry: a call that
\* ends with content from the primary path or the escalation stores exactly
\* that content under its URL; a call that ends in an error adds and
\* overwrites nothing; nothing else writes an entry; a fetch of a URL whose
\* entry is stored and unexpired makes no request.
C16_Writes ==
    /\ \A p \in Procs : Succeeded(p) => Written(p) \in Entries(client'.store)
    /\ \A p \in Procs : Failed(p) => Entries(client'.store) \subseteq Entries(client.store)
    /\ \A e \in Entries(client'.store) \ Entries(client.store) :
          \E p \in Procs : Succeeded(p) /\ e = Written(p)
    /\ \A p \in Procs :
          (Started(p) /\ LiveEntry(client.store, calls'[p].url)) =>
              calls'[p].pc = "done" /\ calls'[p].requests = 0

\* C16: a fetch that missed the cache writes an entry if and only if it ends
\* successfully (primary path or escalation), storing exactly the returned
\* content under its URL, and a fetch that ends in an error adds and
\* overwrites none; the entry stays until its TTL expires, so that a fetch
\* of the same URL issued before then makes no transport request.
C16_SuccessCachedUntilExpiry ==
    [][/\ C16_Writes
       /\ \A e \in Entries(client.store) :
             Age(e) < config.cache_ttl_seconds => HasKey(client'.store, e.key)]_vars

\* C16 as amended: the same, but the entry stays until its TTL expires or
\* until it is evicted: an unexpired entry leaves the store only when a
\* successful fetch of another URL that is not stored finds the store full,
\* and it is then an entry of least stored_at.
C16_SuccessCachedUntilEvicted ==
    [][/\ C16_Writes
       /\ \A e \in Entries(client.store) :
             (Age(e) < config.cache_ttl_seconds /\ ~HasKey(client'.store, e.key)) =>
                 /\ Len(client.store) >= config.cache_max_entries
                 /\ \A f \in Entries(client.store) : e.timestamp <= f.timestamp
                 /\ \E p \in Procs :
                       /\ Succeeded(p)
                       /\ calls[p].url # e.key
                       /\ ~HasKey(client.store, calls[p].url)]_vars

C16_Witness ==
    /\ config.cache_max_entries = 1
    /\ \E p, q \in Procs :
          /\ calls[p].pc = "done" /\ calls[p].via = "primary" /\ calls[p].url = "u1"
          /\ calls[q].pc = "done" /\ calls[q].via = "browser" /\ calls[q].url = "u2"
          /\ calls[p].id < calls[q].id
          /\ Keys(client.store) = {"u2"}
          /\ EntryOf(client.store, "u2").value = calls[q].html

\* C17: with max_concurrent_requests = 1, of the calls that run concurrently
\* for one uncached URL only the first to take the slot makes requests when
\* it succeeds: a call that started before the successful one and is still
\* running makes no rate-limiter wait and no request.
C17_OthersServedFromCache ==
    config.max_concurrent_requests = 1 =>
        \A p, q \in Procs :
            (/\ p # q
             /\ calls[p].url = calls[q].url
             /\ calls[p].id < calls[q].id
             /\ Running(p)
             /\ calls[q].pc = "done"
             /\ calls[q].via \in {"primary", "browser"}) =>
                /\ BeforeSlot(p)
                /\ calls[p].requests = 0
                /\ calls[p].waits = 0

\* C17 as amended: a call that takes the slot while the entry of its URL is
\* stored and unexpired finds it in the re-check and returns that content
\* with no rate-limiter wait and no request, and gives the slot back; only
\* a call whose re-check finds no unexpired entry goes on to the retry loop.
C17_RecheckHitServes ==
    [][\A p \in Procs :
        /\ (Entered(p) /\ LiveEntry(client.store, calls'[p].url)) =>
              /\ calls'[p].pc = "done"
              /\ calls'[p].kind = "content"
              /\ calls'[p].html = LiveValue(client.store, calls'[p].url)
              /\ calls'[p].requests = 0
              /\ calls'[p].waits = 0
              /\ client'.last_request_time = client.last_request_time
              /\ client'.semaphore = client.semaphore
              /\ obs'.last_start = obs.last_start
        /\ (Entered(p) /\ InSlot(p)') => ~LiveEntry(client.store, calls'[p].url)]_vars

C17_Witness ==
    /\ config.max_concurrent_requests = 1
    /\ \E p, q \in Procs :
          /\ p # q
          /\ calls[p].url = calls[q].url
          /\ calls[p].id < calls[q].id
          /\ calls[q].pc = "done" /\ calls[q].via = "primary" /\ calls[q].requests = 1
          /\ calls[p].pc = "done" /\ calls[p].via = "cache_recheck"
          /\ calls[p].html = calls[q].html
          /\ calls[p].requests = 0
          /\ calls[p].waits = 0

\* C18: the calls holding a concurrency slot (in the retry loop: limiter
\* wait, request, backoff sleep, escalation) never number more than
\* max_concurrent_requests; with the default 1 at most one request for a real
\* URL is in flight.
C18_SlotsBounded ==
    /\ Cardinality({p \in Procs : InSlot(p)}) <= config.max_concurrent_requests
    /\ Cardinality({p \in Procs : InSlot(p)}) + client.semaphore
          = config.max_concurrent_requests
    /\ config.max_concurrent_requests = 1 =>
          Cardinality({p \in Procs : calls[p].pc = "request"}) <= 1

C18_Witness ==
    /\ config.max_concurrent_requests = 1
    /\ \E p, q \in Procs :
          /\ calls[p].pc = "request"
          /\ calls[q].pc = "acquire"
          /\ calls[q].url # calls[p].url
    /\ client.semaphore = 0

\* C19: on a client that has not finished warming up no request for a real
\* URL is dispatched: while the warmup request or its settle delay is still
\* running in some call, no call starts a primary-transport request.
C19_NoRequestBeforeWarmupDone ==
    [][\A p \in Procs :
        Dispatched(p) =>
            \A q \in Procs : calls'[q].pc \notin {"warmup_get", "warmup_sleep"}]_vars

\* C20: over all the fetch calls of one client, sequential or concurrent,
\* before and after close(), at most one warmup request is issued, and a
\* call served by its first cache check issues none.
C20_OneWarmupPerLifetime ==
    [][/\ obs'.warmups <= 1
       /\ obs'.warmups >= obs.warmups
       /\ \A p \in Procs :
             (Started(p) /\ LiveEntry(client.store, calls'[p].url)) =>
                 /\ obs'.warmups = obs.warmups
                 /\ client'.warmed_up = client.warmed_up
                 /\ calls'[p].pc = "done"]_vars

C20_Witness ==
    /\ obs.warmups = 1
    /\ obs.closed >= 1
    /\ obs.close_pc = "idle"
    /\ \E p \in Procs :
          /\ calls[p].id > obs.closed
          /\ calls[p].pc = "done"
          /\ calls[p].via = "primary"
          /\ calls[p].requests >= 1
\* C21: a warmup request that fails with a transport error is swallowed: the
\* call raises nothing and goes on to the settle sleep, then to the
\* concurrency gate and the retry loop, as after an answered warmup; the
\* warmup is not attempted again, by this call or by a later one.
C21_WarmupFailureSwallowed ==
    [][\A p \in Procs :
         /\ (calls[p].pc = "warmup_get" /\ calls'[p].pc # "warmup_get")
                => /\ calls'[p].pc = "warmup_sleep"
                   /\ calls'[p].kind = "none"
                   /\ calls'[p].wake = now + WARMUP_SETTLE_SECONDS
                   /\ client'.warmed_up
         /\ (calls[p].warmup_failed /\ calls[p].pc = "warmup_sleep"
                                    /\ calls'[p].pc # "warmup_sleep")
                => /\ calls'[p].pc \in {"acquire", "rate_limit_sleep", "request", "done"}
                   /\ calls'[p].pc = "done" => calls'[p].via = "cache_recheck"
                   /\ calls'[p].pc \in {"rate_limit_sleep", "request"}
                         => /\ client'.semaphore = client.semaphore - 1
                            /\ calls'[p].waits = 1
         /\ (calls[p].warmup_failed /\ ~Started(p))
                => /\ obs'.warmups = obs.warmups
                   /\ calls'[p].pc = "done"
                         => \/ calls'[p].via = "cache_recheck"
                            \/ calls'[p].requests >= 1]_vars

C21_Witness ==
    \E p \in Procs :
        /\ calls[p].warmup_failed
        /\ calls[p].pc = "done"
        /\ calls[p].kind = "content"
        /\ calls[p].via = "primary"
        /\ obs.warmups = 1
        /\ obs.calls = 2

\* What a step did to escalation call p.
EscStarted(p) == bw'.tasks[p].pc # "idle" /\ bw.tasks[p].pc \in {"idle", "done"}
StartBegun(p) ==
    /\ bw'.tasks[p].pc = "starting"
    /\ bw.tasks[p].pc # "starting" \/ EscStarted(p)
Starting(b, f) == {p \in Procs : b.tasks[p].pc = "starting" /\ b.tasks[p].f = f}
SessionsOf(b, f) == {i \in 1..Len(b.sessions) : b.sessions[i].by = f}
HasPage(t) == t.pc \in {"poll_sleep", "poll_read", "final_read", "page_close"}

\* C22: escalation calls racing on the first use of one BrowserFetcher start
\* the browser runtime once: no start begins while another is in progress
\* or while a session is present, a fetcher never has two sessions, and every
\* call that navigates uses the session its fetcher holds.
C22_RuntimeStartedOnce ==
    [][\A p \in Procs :
         LET f == bw'.tasks[p].f
         IN /\ StartBegun(p) /\ f <= Len(bw.fetchers)
                => /\ bw.fetchers[f].browser = 0
                   /\ Starting(bw, f) \subseteq {p}
                   /\ SessionsOf(bw, f) = {}
            /\ f # 0 => /\ Cardinality(Starting(bw', f)) <= 1
                        /\ Cardinality(SessionsOf(bw', f)) <= 1
            /\ bw'.tasks[p].pc = "navigating"
                => /\ bw'.tasks[p].s # 0
                   /\ bw'.tasks[p].s = bw'.fetchers[f].browser
                   /\ SessionsOf(bw', f) = {bw'.tasks[p].s}]_vars

C22_Witness ==
    \E p, q \in Procs :
        /\ bw.tasks[p].pc = "navigating" /\ bw.tasks[p].starts = 1
        /\ bw.tasks[q].pc = "navigating" /\ bw.tasks[q].starts = 0
        /\ bw.tasks[q].waited
        /\ bw.tasks[q].f = bw.tasks[p].f
        /\ bw.tasks[q].s = bw.tasks[p].s
        /\ Len(bw.sessions) = 1

Live(b) == {i \in 1..Len(b.sessions) : b.sessions[i].state = "live"}

\* C23: whatever the interleaving of fetch calls and close() calls of one
\* client, at most one browser session started by it is live (started and
\* stop() not yet called on it).
C23_OneLiveSession == Cardinality(Live(bw)) <= 1

\* The step in which BrowserFetcher.fetch of call p leaves its try block,
\* with content or with an error.
LeftTry(p) == bw'.tasks[p].pc = "page_close" /\ bw.tasks[p].pc # "page_close"

\* C24: BrowserFetcher.fetch returns content only if is_challenge_page does
\* not classify it as a challenge; when the content held after the poll loop
\* is a challenge it raises BrowserFetchError naming the URL, which is the
\* error the call ends with, and it never navigates a second time.
C24_ChallengeNeverReturned ==
    [][\A p \in Procs :
         LET t == bw.tasks[p]
             t1 == bw'.tasks[p]
         IN /\ t1.kind = "content" => ~is_challenge_page(t1.result)
            /\ t1.navs <= 1
            /\ LeftTry(p)
                 => /\ t1.navs = 1
                    /\ \/ /\ ~is_challenge_page(t1.html)
                          /\ t1.kind = "content"
                          /\ t1.result = t1.html
                       \/ /\ is_challenge_page(t1.html)
                          /\ t1.kind = "error"
                          /\ t1.error.type = "BrowserFetchError"
                          /\ t1.error.msg = "Challenge page persisted after browser fetch"
                          /\ t1.error.url = t.url
                       \/ /\ t.pc \in {"poll_read", "final_read"}
                          /\ t1.html = t.html
                          /\ t1.kind = "error"
                          /\ t1.error = BrowserError
            /\ t.pc = "page_close"
                 => /\ t1.pc \in {"page_close", "done"}
                    /\ t1.navs = t.navs
                    /\ t1.kind = "content" => t.kind = "content" /\ t1.result = t.result
                    /\ t.error = BrowserFetchError(t.url)
                          => t1.kind = "error" /\ t1.error = t.error]_vars

C24_Witness ==
    \E p \in Procs :
        /\ bw.tasks[p].pc = "done"
        /\ bw.tasks[p].kind = "error"
        /\ bw.tasks[p].error = BrowserFetchError("u1")
        /\ bw.tasks[p].url = "u1"
        /\ bw.tasks[p].reads = 2
        /\ bw.tasks[p].navs = 1

\* C25: a BrowserFetcher.fetch call that obtained a page closes it exactly
\* once before it ends, whether it returns content, raises for a persistent
\* challenge or fails while reading the content; a call without a page
\* closes nothing.
C25_PageClosedOnce ==
    \A p \in Procs :
        LET t == bw.tasks[p]
        IN /\ t.closes <= 1
           /\ t.page = "none" => t.closes = 0
           /\ t.page = "open" => HasPage(t) /\ t.closes = 0
           /\ t.page = "closed" => t.closes = 1
           /\ t.pc = "done" => t.page # "open"
           /\ (t.pc = "done" /\ (t.reads > 0 \/ t.final_reads > 0 \/ t.kind = "content"))
                => t.page = "closed"

C25_Witness ==
    \E p \in Procs :
        /\ bw.tasks[p].pc = "done"
        /\ bw.tasks[p].kind = "error"
        /\ bw.tasks[p].error = BrowserError
        /\ bw.tasks[p].reads > 0
        /\ bw.tasks[p].page = "closed"
        /\ bw.tasks[p].closes = 1

\* close() of the client run from start to end on client fields c and
\* fetcher objects b.
ClientClose(c, b, stop_ok, ok) ==
    [c |-> close_session(close_browser(c), ok),
     b |-> close_raised([close_fetcher(b, stop_ok) EXCEPT !.close_error = FALSE], c, ok)]

\* C26: close() is idempotent and never raises.  Called on any state the
\* client or a fetcher can be in between calls, also when stop() fails and
\* whatever the close() of the transport session does,
\* BrowserFetcher.close leaves the fetcher without a session and
\* LoopnetClient.close leaves the client without fetcher and without
\* transport session, and a second call changes nothing further; the calls
\* that are made have that effect.
C26_CloseIdempotent ==
    [][/\ ~bw'.close_error
       /\ Quiet =>
            \A ok1, ok2, s1, s2 \in BOOLEAN :
                LET once == ClientClose(client, bw, ok1, s1)
                IN /\ ClientClose(once.c, once.b, ok2, s2) = once
                   /\ ~once.c.client /\ ~once.c.browser_fetcher
                   /\ once.b.fetcher = 0
                   /\ ~once.b.close_error
                   /\ bw.fetcher # 0 => once.b.fetchers[bw.fetcher].browser = 0
                   /\ Live(once.b) = Live(bw) \ {i \in Live(bw) : bw.sessions[i].by = bw.fetcher}
       /\ Quiet =>
            \A f \in 1..Len(bw.fetchers), ok1, ok2 \in BOOLEAN :
                LET once == BrowserFetcher_close(bw, f, ok1)
                IN /\ BrowserFetcher_close(once, f, ok2) = once
                   /\ once.fetchers[f].browser = 0
                   /\ ~once.close_error
       /\ (obs.close_pc = "idle" /\ obs'.close_pc = "session_close")
            => /\ bw'.fetcher = 0 /\ ~client'.browser_fetcher
               /\ bw.fetcher # 0 => bw'.fetchers[bw.fetcher].browser = 0
       /\ (obs.close_pc = "session_close" /\ obs'.close_pc = "idle")
            => /\ ~client'.client /\ ~client'.browser_fetcher /\ bw'.fetcher = 0
               /\ \A f \in 1..Len(bw'.fetchers) : bw'.fetchers[f].browser = 0
               /\ Live(bw') = {}
       /\ \A i \in Live(bw) \ Live(bw') : bw'.fetchers[bw.sessions[i].by].browser = 0]_vars

C26_Witness ==
    /\ Quiet
    /\ obs.calls = 2 /\ obs.closed = 2
    /\ Len(bw.sessions) = 2
    /\ \A i \in 1..2 : bw.sessions[i].state = "stopped"
    /\ ~client.client /\ ~client.browser_fetcher /\ bw.fetcher = 0
    /\ ~bw.close_error

Resolved(html) == ~is_challenge_page(html) /\ html.len > MIN_CONTENT_LENGTH

\* C29: the poll loop reads the content once per poll interval and stops at
\* the first read that is resolved (not a challenge and longer than the size
\* floor) or once the deadline has passed; it makes at most one read per
\* interval of the wait budget, none after a resolved one, and when it
\* captured no content the content is read exactly once after the loop.
C29_PollLoopBounded ==
    [][\A p \in Procs :
         LET t == bw.tasks[p]
             t1 == bw'.tasks[p]
         IN /\ t1.reads * POLL_INTERVAL_SECONDS <= config.browser_challenge_wait_seconds
            /\ t1.final_reads <= 1
            /\ (t1.pc = "poll_sleep" /\ t.pc # "poll_sleep")
                 => /\ t1.wake = now + POLL_INTERVAL_SECONDS
                    /\ now < t1.deadline
                    /\ ~Resolved(t1.html)
            /\ (t.pc = "poll_sleep" /\ t1.pc # "poll_sleep")
                 => /\ now >= t.wake
                    /\ t1.pc = "poll_read"
                    /\ t1.reads = t.reads + 1
            /\ (t.pc = "poll_read" /\ t1.pc # "poll_read")
                 => \/ t1.pc = "page_close" /\ t1.error = BrowserError /\ t1.html = t.html
                    \/ /\ Resolved(t1.html)
                       /\ t1.pc = "page_close" /\ t1.kind = "content"
                    \/ /\ ~Resolved(t1.html) /\ now < t.deadline
                       /\ t1.pc = "poll_sleep"
                    \/ /\ ~Resolved(t1.html) /\ now >= t.deadline
                       /\ IF t1.html.len = 0
                          THEN t1.pc = "final_read" /\ t1.final_reads = 1
                          ELSE t1.pc = "page_close" /\ t1.final_reads = 0
            /\ (t.pc = "navigating" /\ t1.pc = "final_read")
                 => /\ config.browser_challenge_wait_seconds <= 0
                    /\ t1.reads = 0 /\ t1.final_reads = 1
            /\ (t.pc = "final_read" /\ t1.pc # "final_read")
                 => t1.pc = "page_close" /\ t1.final_reads = 1
            /\ (t1.pc \in {"poll_read", "final_read"} /\ t.pc # t1.pc)
                 => ~Resolved(t.html)]_vars

C29_Witness ==
    \E p \in Procs :
        /\ config.browser_challenge_wait_seconds = 2
        /\ bw.tasks[p].pc = "done"
        /\ bw.tasks[p].reads = 2
        /\ bw.tasks[p].final_reads = 1
        /\ bw.tasks[p].kind = "content"

\* C27: two sequential fetch calls for two different uncached URLs, each
\* answered by a 200 non-challenge response, take at least
\* request_delay_seconds from the start of the first call to the return of
\* the second.  The second call runs on the task of the first, so it starts
\* after the first has returned; the first call's entry for "u1" in the store
\* shows that it was answered with content by the primary transport.
C27_TwoFetchesTakeDelay ==
    [][(/\ ResponseStep(1)
        /\ calls[1].id = 2
        /\ calls[1].url = "u2"
        /\ calls'[1].pc = "done" /\ calls'[1].via = "primary"
        /\ HasKey(client.store, "u1")
        /\ EntryOf(client.store, "u1").value \in PrimaryPages)
           => now - FirstStart >= config.request_delay_seconds]_vars

C27_Witness ==
    /\ calls[1].id = 2
    /\ calls[1].pc = "done" /\ calls[1].via = "primary" /\ calls[1].url = "u2"
    /\ calls[1].requests = 1 /\ calls[1].waits = 1
    /\ HasKey(client.store, "u1")
    /\ EntryOf(client.store, "u1").value \in PrimaryPages
    /\ EntryOf(client.store, "u1").timestamp = FirstStart
    /\ now = FirstStart + config.request_delay_seconds

\* C28: within one call every primary request directly follows one limiter
\* wait of that call; a retryable failure on attempt i that is not the last
\* starts a backoff sleep of 2^i seconds, after which the next limiter wait
\* begins; the last attempt is followed by no backoff, so a call that
\* exhausts its attempts has slept max_retries - 1 backoffs.
C28_WaitRequestBackoff ==
    [][\A p \in Procs :
         LET k == calls[p]
             k1 == calls'[p]
         IN /\ k1.waits = k1.requests + (IF k1.pc = "rate_limit_sleep" THEN 1 ELSE 0)
            /\ Dispatched(p)
                 => \/ k.pc = "rate_limit_sleep" /\ k1.waits = k.waits /\ now >= k.wake
                    \/ k.pc # "rate_limit_sleep" /\ k1.waits = (IF Started(p) THEN 0 ELSE k.waits) + 1
            /\ (k.pc = "request" /\ k1.pc = "backoff")
                 => /\ k.attempt < config.max_retries - 1
                    /\ k1.wake = now + 2 ^ k.attempt
                    /\ k1.backoffs = k.backoffs + 1
                    /\ k1.backoffs = k.attempt + 1
                    /\ k1.failures = k1.backoffs
            /\ (k.pc = "backoff" /\ k1.pc # "backoff")
                 => /\ now >= k.wake
                    /\ k1.attempt = k.attempt + 1
                    /\ k1.waits = k.waits + 1
                    /\ k1.pc \in {"rate_limit_sleep", "request"}
            /\ (ResponseStep(p) /\ k1.via = "exhausted")
                 => /\ k.attempt = config.max_retries - 1
                    /\ k1.requests = config.max_retries
                    /\ k1.backoffs = config.max_retries - 1
                    /\ k1.backoffs = k.backoffs]_vars

C28_Witness ==
    \E p \in Procs :
        /\ config.max_retries = 3
        /\ calls[p].pc = "done" /\ calls[p].via = "exhausted"
        /\ calls[p].requests = 3 /\ calls[p].waits = 3
        /\ calls[p].backoffs = 2

\* The clock of the model stops at MaxTime: a call asleep until a later
\* time, or waiting for the slot such a call holds, is cut off by the
\* horizon and not by the program.
Beyond(p) ==
    /\ calls[p].pc \in {"warmup_sleep", "rate_limit_sleep", "backoff"}
    /\ calls[p].wake > MaxTime
CutOff(p) ==
    \/ Beyond(p)
    \/ calls[p].pc = "acquire" /\ \E q \in Procs : InSlot(q) /\ Beyond(q)

\* C30: a fetch that took a slot gives it back on every exit path, so under
\* fair scheduling every call ends, with content or an error, after at most
\* max_retries primary requests and at most one escalation call; a call
\* waiting for a slot stops waiting only by taking one, so every waiting call
\* gets its slot.
C30_SlotsReleasedCallsEnd ==
    /\ [](\A p \in Procs :
            /\ calls[p].requests <= config.max_retries
            /\ calls[p].escalations <= 1
            /\ calls[p].pc = "done" => calls[p].kind \in {"content", "error"})
    /\ []((\A p \in Procs : ~InSlot(p))
            => client.semaphore = config.max_concurrent_requests)
    /\ [][\A p \in Procs :
            (calls[p].pc = "acquire" /\ calls'[p].pc # "acquire")
               => /\ client.semaphore > 0
                  /\ \/ InSlot(p)' /\ client'.semaphore = client.semaphore - 1
                     \/ calls'[p].pc = "done" /\ client'.semaphore = client.semaphore]_vars
    /\ \A p \in Procs :
         Running(p) ~> (calls[p].pc = "done" \/ CutOff(p))

C30_Witness ==
    /\ calls[1].pc = "done" /\ calls[1].via = "exhausted"
    /\ calls[1].requests = config.max_retries
    /\ calls[2].pc = "done" /\ calls[2].via = "browser"
    /\ calls[2].escalations = 1
    /\ calls[2].id = 2
    /\ client.semaphore = config.max_concurrent_requests

====
